---- MODULE Spec2Model ----
(***************************************************************************)
(* Model of the two command-line clients of NethServer/my:                 *)
(*   scripts/alerting_config.py  (OIDC/PKCE login, then one backend call)  *)
(*   scripts/alert.py            (the silence subcommand)                  *)
(*                                                                         *)
(* Python strings are sequences of one-character strings, so that the      *)
(* substring test, str.split, urlparse and parse_qs are computed and not   *)
(* assumed.  The alphabet used has no '%' and no '+', the only characters  *)
(* that unquote() rewrites.                                                *)
(***************************************************************************)
EXTENDS Integers, Sequences, FiniteSets, TLC

VARIABLES pc, args, log, nsessions, session, redirect_to, location, code,
          logto_token, jwt, outcome, exitcode, stderr, stdout

vars == <<pc, args, log, nsessions, session, redirect_to, location, code,
          logto_token, jwt, outcome, exitcode, stderr, stdout>>

----------------------------------------------------------------------------
(* Strings *)

\* Python's None; no string of the model equals it (its element is not one character)
None == <<"None">>

\* "x is None" where "not x" was meant
IsNone(x) == x = <<"None">>

\* "not x" for x a string or None
Falsy(x) == x = None \/ x = <<>>

\* sub in s
Contains(s, sub) ==
    \E i \in 1..(Len(s) - Len(sub) + 1) : SubSeq(s, i, i + Len(sub) - 1) = sub

\* position of the first c in s, 0 when there is none
RECURSIVE IndexFrom(_, _, _)
IndexFrom(s, c, i) ==
    IF i > Len(s) THEN 0
    ELSE IF s[i] = c THEN i
    ELSE IndexFrom(s, c, i + 1)

IndexOf(s, c) == IndexFrom(s, c, 1)

\* s.split(c, 1): one or two parts
Split1(s, c) ==
    LET i == IndexOf(s, c)
    IN  IF i = 0 THEN <<s>>
        ELSE <<SubSeq(s, 1, i - 1), SubSeq(s, i + 1, Len(s))>>

\* s.split(c): all the parts
RECURSIVE SplitAll(_, _)
SplitAll(s, c) ==
    LET i == IndexOf(s, c)
    IN  IF i = 0 THEN <<s>>
        ELSE <<SubSeq(s, 1, i - 1)>> \o SplitAll(SubSeq(s, i + 1, Len(s)), c)

----------------------------------------------------------------------------
(* Insertion-ordered dict: a sequence of <<key, value>> with distinct keys *)

RECURSIVE DictHas(_, _)
DictHas(d, k) ==
    IF d = <<>> THEN FALSE
    ELSE IF d[1][1] = k THEN TRUE
    ELSE DictHas(Tail(d), k)

\* d.get(k, dflt)
RECURSIVE DictGet(_, _, _)
DictGet(d, k, dflt) ==
    IF d = <<>> THEN dflt
    ELSE IF d[1][1] = k THEN d[1][2]
    ELSE DictGet(Tail(d), k, dflt)

\* A list of pairs where a dict was meant: every assignment adds an entry
DictAppend(d, k, v) == Append(d, <<k, v>>)

\* d[k] = v: a present key keeps its position, an absent one goes last
DictSet(d, k, v) ==
    IF DictHas(d, k)
    THEN [i \in 1..Len(d) |-> IF d[i][1] = k THEN <<k, v>> ELSE d[i]]
    ELSE Append(d, <<k, v>>)

----------------------------------------------------------------------------
(* urllib.parse *)

\* The query taken without cutting the fragment off first
UrlQueryWithFragment(url) ==
    LET parts == Split1(url, "?")
    IN  IF Len(parts) = 2 THEN parts[2] ELSE <<>>

\* urlparse(url).query: the fragment goes at the first '#', the query starts
\* after the first '?' of what is left
UrlQuery(url) ==
    LET nofrag == Split1(url, "#")[1]
        parts  == Split1(nofrag, "?")
    IN  IF Len(parts) = 2 THEN parts[2] ELSE <<>>

\* parse_qsl(qs) with keep_blank_values=False, strict_parsing=False:
\* empty fields, fields without '=' and fields with a blank value are dropped
RECURSIVE QslOf(_)
QslOf(fields) ==
    IF fields = <<>> THEN <<>>
    ELSE LET nv   == Split1(fields[1], "=")
             rest == QslOf(Tail(fields))
         IN  IF fields[1] = <<>> THEN rest
             ELSE IF Len(nv) # 2 THEN rest
             ELSE IF Len(nv[2]) > 0 THEN <<nv>> \o rest
             ELSE rest

parse_qsl(qs) == QslOf(SplitAll(qs, "&"))

\* parse_qs(qs): name -> list of its values, in order
RECURSIVE QsOf(_, _)
QsOf(pairs, d) ==
    IF pairs = <<>> THEN d
    ELSE LET name  == pairs[1][1]
             value == pairs[1][2]
         IN  QsOf(Tail(pairs),
                  IF DictHas(d, name)
                  THEN DictSet(d, name, Append(DictGet(d, name, <<>>), value))
                  ELSE DictSet(d, name, <<value>>))

parse_qs(qs) == QsOf(parse_qsl(qs), <<>>)

----------------------------------------------------------------------------
(* HTTP responses as the requests library hands them to the scripts *)

\* A body that is a JSON object; an absent key reads as None through .get
EmptyObj ==
    [kind |-> "object", message |-> None, redirectTo |-> None,
     access_token |-> None, data |-> "absent", token |-> None, alerts |-> 0]

\* A body that is not JSON (an HTML error page, an empty body)
TextBody == [EmptyObj EXCEPT !.kind = "text"]

\* A body that is JSON but no object (a list)
ArrayBody == [EmptyObj EXCEPT !.kind = "array"]

Resp(status, body, loc) ==
    [net |-> TRUE, status |-> status, body |-> body, location |-> loc]

\* The call raised a transport error (connection refused, timeout): no response
NetFail == [net |-> FALSE, status |-> 0, body |-> TextBody, location |-> None]

\* requests.Response.ok
Ok(r) == r.status < 400

\* r.json() raises JSONDecodeError
JsonRaises(r) == r.body.kind = "text"

\* r.json().get(...) raises AttributeError
GetRaises(r) == r.body.kind = "array"

\* Values the servers may send
Urls == {<<"u", "1">>, <<"u", "2">>}
Codes == {<<"c", "1">>, <<"c", "2">>}
AccessTokens == {<<"a", "1">>}
Jwts == {<<"j", "1">>, <<"j", "2">>}
Message == <<"b", "a", "d">>

ConsentLocations ==
    { <<"/", "c", "o", "n", "s", "e", "n", "t">>,
      <<"/", "u", "/", "c", "o", "n", "s", "e", "n", "t", "?", "x">> }

OtherLocations ==
    { None,
      <<"/", "c", "o", "n", "s", "e", "n">>,
      <<"/", "c", "b">> }

CallbackLocations ==
    { None,
      <<"/", "c", "b">>,
      <<"/", "c", "b", "?", "s", "=", "x">>,
      <<"/", "c", "b", "?", "c", "o", "d", "e", "=">>,
      <<"/", "c", "b", "?", "c", "o", "d", "e">>,
      <<"/", "c", "b", "?", "x", "c", "o", "d", "e", "=", "c", "1">>,
      <<"/", "c", "b", "#", "?", "c", "o", "d", "e", "=", "c", "1">>,
      <<"/", "c", "b", "?", "c", "o", "d", "e", "=", "c", "1">>,
      <<"/", "c", "b", "?", "s", "=", "x", "&", "c", "o", "d", "e", "=", "c", "2">>,
      <<"/", "c", "b", "?", "c", "o", "d", "e", "=", "c", "2", "&", "c", "o", "d", "e", "=", "c", "1">> }

\* Statuses: a success, and a client and a server error
ErrorBodies == {TextBody, ArrayBody, EmptyObj, [EmptyObj EXCEPT !.message = Message]}

\* Responses whose status the code never reads and whose body it never parses
PlainResponses == {NetFail, Resp(200, TextBody, None), Resp(500, TextBody, None)}

IdentifiersResponses ==
    {NetFail, Resp(204, TextBody, None)}
    \cup {Resp(st, b, None) : st \in {422, 400}, b \in ErrorBodies}

RedirectToBodies ==
    {TextBody, ArrayBody, EmptyObj, [EmptyObj EXCEPT !.redirectTo = <<>>]}
    \cup {[EmptyObj EXCEPT !.redirectTo = u] : u \in Urls}

SubmitResponses ==
    {NetFail} \cup {Resp(st, b, None) : st \in {200, 400}, b \in RedirectToBodies}

RedirectResponses ==
    {NetFail} \cup {Resp(303, TextBody, l) : l \in ConsentLocations \cup OtherLocations}

FinalResponses ==
    {NetFail} \cup {Resp(303, TextBody, l) : l \in CallbackLocations}

TokenBodies ==
    {TextBody, ArrayBody, EmptyObj, [EmptyObj EXCEPT !.access_token = <<>>]}
    \cup {[EmptyObj EXCEPT !.access_token = t] : t \in AccessTokens}

TokenResponses ==
    {NetFail} \cup {Resp(st, b, None) : st \in {200, 400}, b \in TokenBodies}

ExchangeBodies ==
    {TextBody, ArrayBody, EmptyObj, [EmptyObj EXCEPT !.data = "null"],
     [EmptyObj EXCEPT !.data = "object"],
     [EmptyObj EXCEPT !.data = "object", !.token = <<>>]}
    \cup {[EmptyObj EXCEPT !.data = "object", !.token = t] : t \in Jwts}

ExchangeResponses ==
    {NetFail} \cup {Resp(st, b, None) : st \in {200, 500}, b \in ExchangeBodies}

ApiBodies ==
    {TextBody, ArrayBody, EmptyObj, [EmptyObj EXCEPT !.message = Message],
     [EmptyObj EXCEPT !.data = "null"],
     [EmptyObj EXCEPT !.data = "object"],
     [EmptyObj EXCEPT !.data = "object", !.alerts = 1]}

ApiResponses ==
    {NetFail} \cup {Resp(st, b, None) : st \in {200, 403, 502}, b \in ApiBodies}

----------------------------------------------------------------------------
(* State *)

\* One call into the requests library: the call site, what was asked, through
\* which session, and what came back
Call(method, ep, target, via, bearer, payload, resp) ==
    [site |-> pc, method |-> method, ep |-> ep, target |-> target, via |-> via,
     bearer |-> bearer, payload |-> payload, resp |-> resp]

Commands == {"get", "set", "delete", "alerts"}

\* alerting_config.py after parse_args(), before the subcommand runs
Init ==
    /\ pc = "auth"
    /\ args \in [command : Commands, alertname : {<<>>}, labels_given : {FALSE},
                 labels : {<<>>}]
    /\ log = <<>>
    /\ nsessions = 0
    /\ session = 0
    /\ redirect_to = None
    /\ location = None
    /\ code = None
    /\ logto_token = None
    /\ jwt = None
    /\ outcome = "running"
    /\ exitcode = -1
    /\ stderr = <<"", None>>
    /\ stdout = ""

\* print(..., file=sys.stderr); sys.exit(1)
Die(o, what, detail) ==
    /\ pc' = "exit"
    /\ outcome' = o
    /\ exitcode' = 1
    /\ stderr' = <<what, detail>>

\* An exception nobody catches: the interpreter prints the traceback and exits 1
Raise(exc) == Die("UncaughtException", "Traceback", exc)

Goto(p) ==
    /\ pc' = p
    /\ UNCHANGED <<outcome, exitcode, stderr>>

\* requests rejects a URL without a scheme (None, "") before sending anything
InvalidUrl(u) == Falsy(u)

\* The sentinel a call leaves in the log when the library raised before sending
NotSent == [NetFail EXCEPT !.status = -1]

----------------------------------------------------------------------------
(* _logto_login *)

\* lines 74-102: the session, the PKCE values, GET /oidc/auth
StartAuth ==
    /\ pc = "auth"
    /\ nsessions' = nsessions + 1
    /\ session' = nsessions + 1
    /\ \E r \in PlainResponses :
        /\ log' = Append(log, Call("GET", "/oidc/auth", <<>>, session', None, None, r))
        /\ IF ~r.net THEN Raise("ConnectionError") ELSE Goto("put")
    /\ UNCHANGED <<args, redirect_to, location, code, logto_token, jwt, stdout>>

\* line 105: PUT /api/interaction
PutInteraction ==
    /\ pc = "put"
    /\ \E r \in PlainResponses :
        /\ log' = Append(log, Call("PUT", "/api/interaction", <<>>, session, None, None, r))
        /\ IF ~r.net THEN Raise("ConnectionError") ELSE Goto("patch")
    /\ UNCHANGED <<args, nsessions, session, redirect_to, location, code,
                   logto_token, jwt, stdout>>

\* lines 110-115: what the script does with the answer to the PATCH
AfterIdentifiers(r) ==
    IF r.status = 422
    THEN IF JsonRaises(r) THEN Raise("JSONDecodeError")
         ELSE IF GetRaises(r) THEN Raise("AttributeError")
         ELSE Die("InvalidCredentials", "Authentication failed",
                  IF r.body.message # None THEN r.body.message ELSE r.body)
    ELSE IF ~Ok(r)
    THEN Die("ProviderError", "Authentication error", r.body)
    ELSE Goto("submit")

\* lines 106-115: PATCH /api/interaction/identifiers
PatchIdentifiers ==
    /\ pc = "patch"
    /\ \E r \in IdentifiersResponses :
        /\ log' = Append(log, Call("PATCH", "/api/interaction/identifiers", <<>>,
                                   session, None, None, r))
        /\ IF ~r.net THEN Raise("ConnectionError") ELSE AfterIdentifiers(r)
    /\ UNCHANGED <<args, nsessions, session, redirect_to, location, code,
                   logto_token, jwt, stdout>>

\* lines 118-122: POST /api/interaction/submit
SubmitInteraction ==
    /\ pc = "submit"
    /\ \E r \in SubmitResponses :
        /\ log' = Append(log, Call("POST", "/api/interaction/submit", <<>>,
                                   session, None, None, r))
        /\ IF ~r.net THEN Raise("ConnectionError") /\ UNCHANGED redirect_to
           ELSE IF JsonRaises(r) THEN Raise("JSONDecodeError") /\ UNCHANGED redirect_to
           ELSE IF GetRaises(r) THEN Raise("AttributeError") /\ UNCHANGED redirect_to
           ELSE /\ redirect_to' = r.body.redirectTo
                /\ IF Falsy(r.body.redirectTo)
                   THEN Die("UnexpectedResponse", "Unexpected sign-in response", r.body)
                   ELSE Goto("redirect")
    /\ UNCHANGED <<args, nsessions, session, location, code, logto_token, jwt, stdout>>

\* r.headers.get("Location", dflt)
LocationOf(r, dflt) == IF r.location = None THEN dflt ELSE r.location

\* Testing the Location for the consent path itself, not for the substring
ConsentNeededExact(r) ==
    LocationOf(r, <<>>) = <<"/", "c", "o", "n", "s", "e", "n", "t">>

\* line 126: "consent" in r5.headers.get("Location", "")
ConsentNeeded(r) ==
    Contains(LocationOf(r, <<>>), <<"c", "o", "n", "s", "e", "n", "t">>)

\* lines 125-126: GET redirect_to, then the consent test
FollowRedirect ==
    /\ pc = "redirect"
    /\ \E r \in RedirectResponses :
        /\ log' = Append(log, Call("GET", "redirect_to", redirect_to, session, None, None, r))
        /\ IF ~r.net THEN Raise("ConnectionError") /\ UNCHANGED location
           ELSE /\ location' = r.location
                /\ IF ConsentNeeded(r) THEN Goto("consent_get") ELSE Goto("final")
    /\ UNCHANGED <<args, nsessions, session, redirect_to, code, logto_token, jwt, stdout>>

\* line 127: GET <logto><Location>
ConsentGet ==
    /\ pc = "consent_get"
    /\ \E r \in PlainResponses :
        /\ log' = Append(log, Call("GET", "logto+Location", location, session, None, None, r))
        /\ IF ~r.net THEN Raise("ConnectionError") ELSE Goto("consent_post")
    /\ UNCHANGED <<args, nsessions, session, redirect_to, location, code,
                   logto_token, jwt, stdout>>

\* The same call made outside the login session (requests.post)
ConsentCallOutside(r) ==
    Call("POST", "/api/interaction/consent", <<>>, nsessions + 1, None, None, r)

\* line 128: session.post(<logto>/api/interaction/consent)
ConsentCall(r) ==
    Call("POST", "/api/interaction/consent", <<>>, session, None, None, r)

\* lines 128-129: POST /api/interaction/consent; its redirectTo is taken unchecked
ConsentPost ==
    /\ pc = "consent_post"
    /\ \E r \in SubmitResponses :
        /\ log' = Append(log, ConsentCall(r))
        /\ IF ~r.net THEN Raise("ConnectionError") /\ UNCHANGED redirect_to
           ELSE IF JsonRaises(r) THEN Raise("JSONDecodeError") /\ UNCHANGED redirect_to
           ELSE IF GetRaises(r) THEN Raise("AttributeError") /\ UNCHANGED redirect_to
           ELSE redirect_to' = r.body.redirectTo /\ Goto("final")
    /\ UNCHANGED <<args, nsessions, session, location, code, logto_token, jwt, stdout>>

\* lines 133-135: the first value of the code parameter of the Location's query
CodeOf(r) ==
    LET callback_url == LocationOf(r, <<>>)
        qs == parse_qs(UrlQuery(callback_url))
    IN  DictGet(qs, <<"c", "o", "d", "e">>, <<None>>)[1]

\* lines 132-138: GET redirect_to again, the code out of its Location
FinalRedirect ==
    /\ pc = "final"
    /\ IF InvalidUrl(redirect_to)
       THEN /\ log' = Append(log, Call("GET", "redirect_to", redirect_to, session,
                                        None, None, NotSent))
            /\ Raise("MissingSchema")
            /\ UNCHANGED code
       ELSE \E r \in FinalResponses :
            /\ log' = Append(log, Call("GET", "redirect_to", redirect_to, session,
                                        None, None, r))
            /\ IF ~r.net THEN Raise("ConnectionError") /\ UNCHANGED code
               ELSE /\ code' = CodeOf(r)
                    /\ IF Falsy(CodeOf(r))
                       THEN Die("NoAuthorizationCode",
                                "Failed to obtain authorization code from",
                                LocationOf(r, <<>>))
                       ELSE Goto("token")
    /\ UNCHANGED <<args, nsessions, session, redirect_to, location, logto_token,
                   jwt, stdout>>

\* lines 141-154: POST /oidc/token through requests.post, which opens a session
\* of its own for the one call
TokenExchange ==
    /\ pc = "token"
    /\ nsessions' = nsessions + 1
    /\ \E r \in TokenResponses :
        /\ log' = Append(log, Call("POST", "/oidc/token", <<>>, nsessions + 1, None, code, r))
        /\ IF ~r.net THEN Raise("ConnectionError") /\ UNCHANGED logto_token
           ELSE IF JsonRaises(r) THEN Raise("JSONDecodeError") /\ UNCHANGED logto_token
           ELSE IF GetRaises(r) THEN Raise("AttributeError") /\ UNCHANGED logto_token
           ELSE /\ logto_token' = r.body.access_token
                /\ IF Falsy(r.body.access_token)
                   THEN Die("TokenExchangeFailed", "Failed to get Logto access token", r.body)
                   ELSE Goto("exchange")
    /\ UNCHANGED <<args, session, redirect_to, location, code, jwt, stdout>>

\* Returning the provider's access token in place of the backend's
ReturnedLogtoToken(r) == logto_token

\* line 162: r7.json().get("data", {}).get("token")
ReturnedToken(r) == IF r.body.data = "absent" THEN None ELSE r.body.token

\* lines 157-167: POST <backend>/auth/exchange through requests.post; the
\* token found is what _logto_login returns
BackendExchange ==
    /\ pc = "exchange"
    /\ nsessions' = nsessions + 1
    /\ \E r \in ExchangeResponses :
        /\ log' = Append(log, Call("POST", "/auth/exchange", <<>>, nsessions + 1,
                                   None, logto_token, r))
        /\ IF ~r.net THEN Raise("ConnectionError") /\ UNCHANGED jwt
           ELSE IF JsonRaises(r) THEN Raise("JSONDecodeError") /\ UNCHANGED jwt
           ELSE IF GetRaises(r) \/ r.body.data = "null"
                THEN Raise("AttributeError") /\ UNCHANGED jwt
           ELSE IF Falsy(ReturnedToken(r))
                THEN Die("BackendExchangeFailed", "Failed to exchange token", r.body)
                     /\ UNCHANGED jwt
           ELSE jwt' = ReturnedToken(r) /\ Goto("cmd")
    /\ UNCHANGED <<args, session, redirect_to, location, code, logto_token, stdout>>

----------------------------------------------------------------------------
(* The subcommands, after their call of _logto_login has returned *)

\* Sending the provider's access token in place of the value login returned
BearerLogto(token) == logto_token

\* headers = {"Authorization": f"Bearer {jwt}"}
Bearer(token) == token

\* print(...) on standard output, then the function returns: exit status 0
Succeed(out) ==
    /\ pc' = "exit"
    /\ outcome' = "Success"
    /\ exitcode' = 0
    /\ stdout' = out
    /\ UNCHANGED stderr

\* data.get('message', r.text) of lines 203, 229, 247, 271
ErrorMessage(r) == IF r.body.message # None THEN r.body.message ELSE r.body

\* data = r.json(); if not r.ok: print(Error ...); sys.exit(1)
\* TRUE when the command goes on to its success output
ApiFailed(r) ==
    IF ~r.net THEN Raise("ConnectionError")
    ELSE IF JsonRaises(r) THEN Raise("JSONDecodeError")
    ELSE IF ~Ok(r)
         THEN IF GetRaises(r) THEN Raise("AttributeError")
              ELSE Die("BackendError", "Error", ErrorMessage(r))
    ELSE FALSE

ApiPassed(r) == r.net /\ ~JsonRaises(r) /\ Ok(r)

\* data.get("data", {}).get(...) raises AttributeError
DataRaises(r) == GetRaises(r) \/ r.body.data = "null"

\* lines 193-207
cmd_get ==
    /\ pc = "cmd"
    /\ args.command = "get"
    /\ nsessions' = nsessions + 1
    /\ \E r \in ApiResponses :
        /\ log' = Append(log, Call("GET", "/alerting/config", <<>>, nsessions + 1,
                                   Bearer(jwt), None, r))
        /\ IF ApiPassed(r)
           THEN IF DataRaises(r) THEN Raise("AttributeError") /\ UNCHANGED stdout
                ELSE Succeed("config")
           ELSE ApiFailed(r) /\ UNCHANGED stdout
    /\ UNCHANGED <<args, session, redirect_to, location, code, logto_token, jwt>>

\* lines 212-232; the config file may be unreadable or no JSON
cmd_set ==
    /\ pc = "cmd"
    /\ args.command = "set"
    /\ \E readable \in BOOLEAN :
        IF ~readable
        THEN /\ Die("ConfigFileError", "Error reading config file", None)
             /\ UNCHANGED <<log, nsessions, stdout>>
        ELSE /\ nsessions' = nsessions + 1
             /\ \E r \in ApiResponses :
                 /\ log' = Append(log, Call("POST", "/alerting/config", <<>>,
                                            nsessions + 1, Bearer(jwt), None, r))
                 /\ IF ApiPassed(r)
                    THEN Succeed("Alerting configuration updated successfully.")
                    ELSE ApiFailed(r) /\ UNCHANGED stdout
    /\ UNCHANGED <<args, session, redirect_to, location, code, logto_token, jwt>>

\* lines 237-250
cmd_delete ==
    /\ pc = "cmd"
    /\ args.command = "delete"
    /\ nsessions' = nsessions + 1
    /\ \E r \in ApiResponses :
        /\ log' = Append(log, Call("DELETE", "/alerting/config", <<>>, nsessions + 1,
                                   Bearer(jwt), None, r))
        /\ IF ApiPassed(r)
           THEN Succeed("All alerts disabled successfully.")
           ELSE ApiFailed(r) /\ UNCHANGED stdout
    /\ UNCHANGED <<args, session, redirect_to, location, code, logto_token, jwt>>

\* lines 255-279
cmd_alerts ==
    /\ pc = "cmd"
    /\ args.command = "alerts"
    /\ nsessions' = nsessions + 1
    /\ \E r \in ApiResponses :
        /\ log' = Append(log, Call("GET", "/alerting/alerts", <<>>, nsessions + 1,
                                   Bearer(jwt), None, r))
        /\ IF ApiPassed(r)
           THEN IF DataRaises(r) THEN Raise("AttributeError") /\ UNCHANGED stdout
                ELSE IF r.body.data = "absent" \/ r.body.alerts = 0
                     THEN Succeed("No alerts found.")
                     ELSE Succeed("alerts")
           ELSE ApiFailed(r) /\ UNCHANGED stdout
    /\ UNCHANGED <<args, session, redirect_to, location, code, logto_token, jwt>>

Next ==
    \/ StartAuth
    \/ PutInteraction
    \/ PatchIdentifiers
    \/ SubmitInteraction
    \/ FollowRedirect
    \/ ConsentGet
    \/ ConsentPost
    \/ FinalRedirect
    \/ TokenExchange
    \/ BackendExchange
    \/ cmd_get
    \/ cmd_set
    \/ cmd_delete
    \/ cmd_alerts

Spec == Init /\ [][Next]_vars

----------------------------------------------------------------------------
(* alert.py: parse_kv and the silence subcommand *)

\* The longest --labels list tried
MaxLabels == 2

AlertNames == {<<"C", "P", "U">>, <<"a">>}

\* key=value arguments: well formed, repeated keys, a value holding '=', an
\* empty key, an empty value, and two without '='
Pairs ==
    { <<"a", "=", "1">>, <<"a", "=", "2">>, <<"b", "=", "1">>,
      <<"a", "=", "b", "=", "c">>, <<"=", "x">>, <<"b", "=">>,
      <<"b">>, <<>> }

SeqsUpTo(S, n) == UNION {[1..k -> S] : k \in 0..n}

\* alert.py after parse_args() chose silence
InitAlert ==
    /\ pc = "silence"
    /\ args \in [command : {"silence"}, alertname : AlertNames,
                 labels_given : BOOLEAN, labels : SeqsUpTo(Pairs, MaxLabels)]
    /\ ~args.labels_given => args.labels = <<>>
    /\ log = <<>>
    /\ nsessions = 0
    /\ session = 0
    /\ redirect_to = None
    /\ location = None
    /\ code = None
    /\ logto_token = None
    /\ jwt = None
    /\ outcome = "running"
    /\ exitcode = -1
    /\ stderr = <<"", None>>
    /\ stdout = ""

\* lines 49-54: the loop of parse_kv from a partial result; bad is the pair
\* that made it call sys.exit(1)
RECURSIVE ParseFrom(_, _)
ParseFrom(pairs, result) ==
    IF pairs = <<>> THEN [ok |-> TRUE, bad |-> <<>>, result |-> result]
    ELSE IF IndexOf(pairs[1], "=") = 0
         THEN [ok |-> FALSE, bad |-> pairs[1], result |-> result]
    ELSE LET kv == Split1(pairs[1], "=")
         IN  ParseFrom(Tail(pairs), DictSet(result, kv[1], kv[2]))

\* lines 46-55; labels is None when --labels was not given
parse_kv(given, pairs) == ParseFrom(IF given THEN pairs ELSE <<>>, <<>>)

Matcher(k, v) == [name |-> k, value |-> v, isRegex |-> FALSE]

\* lines 132-134
Matchers(alertname, items) ==
    <<Matcher(<<"a", "l", "e", "r", "t", "n", "a", "m", "e">>, alertname)>>
    \o [i \in 1..Len(items) |-> Matcher(items[i][1], items[i][2])]

SilenceResponses ==
    {NetFail} \cup {Resp(st, b, None) : st \in {200, 400}, b \in {TextBody, ArrayBody, EmptyObj}}

\* lines 127-158
silence_alert ==
    /\ pc = "silence"
    /\ LET parsed == parse_kv(args.labels_given, args.labels)
       IN  IF ~parsed.ok
           THEN /\ Die("InvalidPair", "Error: invalid key=value pair", parsed.bad)
                /\ UNCHANGED <<log, nsessions, stdout>>
           ELSE /\ nsessions' = nsessions + 1
                /\ \E r \in SilenceResponses :
                    /\ log' = Append(log, Call("POST", "/alertmanager/api/v2/silences",
                                               <<>>, nsessions + 1, None,
                                               Matchers(args.alertname, parsed.result), r))
                    /\ IF ~r.net THEN Raise("ConnectionError") /\ UNCHANGED stdout
                       ELSE IF ~Ok(r)
                            THEN Die("SilenceFailed", "Failed to create silence", r.body)
                                 /\ UNCHANGED stdout
                       ELSE IF JsonRaises(r)
                            THEN Raise("JSONDecodeError") /\ UNCHANGED stdout
                       ELSE IF GetRaises(r)
                            THEN Raise("AttributeError") /\ UNCHANGED stdout
                       ELSE Succeed("Silence created")
    /\ UNCHANGED <<args, session, redirect_to, location, code, logto_token, jwt>>

NextAlert == silence_alert

SpecAlert == InitAlert /\ [][NextAlert]_vars

----------------------------------------------------------------------------
(* Vocabulary of the properties *)

IsPrefix(a, b) == Len(a) <= Len(b) /\ a = SubSeq(b, 1, Len(a))

Shape(l) == [i \in 1..Len(l) |-> <<l[i].method, l[i].ep>>]

\* The calls made by _logto_login, in order
LoginLog == SelectSeq(log, LAMBDA c : c.site # "cmd")

\* The calls made by the subcommand after the login
ApiLog == SelectSeq(log, LAMBDA c : c.site = "cmd")

HeadOrder ==
    << <<"GET", "/oidc/auth">>, <<"PUT", "/api/interaction">>,
       <<"PATCH", "/api/interaction/identifiers">>,
       <<"POST", "/api/interaction/submit">>, <<"GET", "redirect_to">> >>

ConsentOrder ==
    << <<"GET", "logto+Location">>, <<"POST", "/api/interaction/consent">> >>

TailOrder ==
    << <<"GET", "redirect_to">>, <<"POST", "/oidc/token">>, <<"POST", "/auth/exchange">> >>

ExpectedOrder(withConsent) ==
    HeadOrder \o (IF withConsent THEN ConsentOrder ELSE <<>>) \o TailOrder

\* The URL carries a non-empty code parameter in its query
HasCodeParam(loc) ==
    \E i \in 2..Len(loc) :
        /\ i + 5 <= Len(loc)
        /\ SubSeq(loc, i, i + 4) = <<"c", "o", "d", "e", "=">>
        /\ loc[i + 5] \notin {"&", "#"}
        /\ \A j \in 1..i : loc[j] # "#"
        /\ \/ loc[i - 1] = "?" /\ \A j \in 1..(i - 2) : loc[j] # "?"
           \/ loc[i - 1] = "&" /\ \E j \in 1..(i - 2) : loc[j] = "?"

Present(v) == v # None /\ v # <<>>

\* A success carrying the field the step reads
GoodResp(c) ==
    /\ c.resp.net
    /\ c.resp.status \in 200..399
    /\ c.site \in {"submit", "consent_post"} =>
           c.resp.body.kind = "object" /\ Present(c.resp.body.redirectTo)
    /\ c.site = "final" => c.resp.location # None /\ HasCodeParam(c.resp.location)
    /\ c.site = "token" =>
           c.resp.body.kind = "object" /\ Present(c.resp.body.access_token)
    /\ c.site = "exchange" =>
           /\ c.resp.body.kind = "object"
           /\ c.resp.body.data = "object"
           /\ Present(c.resp.body.token)

AllGood == \A i \in 1..Len(LoginLog) : GoodResp(LoginLog[i])

\* _logto_login has returned
LoginReturned == pc = "cmd" \/ (pc = "exit" /\ jwt # None)

----------------------------------------------------------------------------
(* C1 *)

\* C1: while every response of the login is a success carrying the expected
\* field, the requests made so far are a prefix of the fixed order (with or
\* without the two consent requests), the login does not fail, and once it has
\* returned the whole order was made and the value returned is data.token of
\* the /auth/exchange response.
C1_LoginOrder ==
    AllGood =>
        /\ \E c \in BOOLEAN : IsPrefix(Shape(LoginLog), ExpectedOrder(c))
        /\ pc = "exit" => LoginReturned
        /\ LoginReturned =>
             /\ \E c \in BOOLEAN : Shape(LoginLog) = ExpectedOrder(c)
             /\ jwt = LoginLog[Len(LoginLog)].resp.body.token

\* C1 witness: a login through the consent branch has returned its token
C1_Witness ==
    /\ AllGood
    /\ pc = "cmd"
    /\ Shape(LoginLog) = ExpectedOrder(TRUE)
    /\ jwt \in Jwts

----------------------------------------------------------------------------
(* C2 *)

\* C2: once the PATCH of the identifiers was answered with status 422, the run
\* has ended with the InvalidCredentials diagnostic and exit status 1, and the
\* PATCH is the last request made.
C2_InvalidCredentialsOn422 ==
    \A i \in 1..Len(log) :
        (log[i].site = "patch" /\ log[i].resp.net /\ log[i].resp.status = 422)
        => /\ pc = "exit"
           /\ outcome = "InvalidCredentials"
           /\ exitcode = 1
           /\ Len(log) = i

\* What does hold after a 422: the run has ended with exit status 1 (through
\* sys.exit or through an uncaught exception) and nothing more was requested.
Patch422Stops ==
    \A i \in 1..Len(log) :
        (log[i].site = "patch" /\ log[i].resp.net /\ log[i].resp.status = 422)
        => /\ pc = "exit"
           /\ outcome \in {"InvalidCredentials", "UncaughtException"}
           /\ exitcode = 1
           /\ Len(log) = i

----------------------------------------------------------------------------
(* C3 *)

CheckedSites == {"auth", "put", "patch", "submit", "consent_post", "token", "exchange"}

\* C3: once a request of the login flow was answered with a 4xx/5xx status, the
\* run has ended with exit status 1, that request is the last one made, and no
\* token was returned.
C3_AbortOnAnyErrorStatus ==
    \A i \in 1..Len(log) :
        (log[i].site \in CheckedSites /\ log[i].resp.net /\ log[i].resp.status >= 400)
        => /\ pc = "exit"
           /\ exitcode = 1
           /\ Len(log) = i
           /\ jwt = None

----------------------------------------------------------------------------
(* C4 *)

OutsideSession == {<<"POST", "/oidc/token">>, <<"POST", "/auth/exchange">>}

\* C4 as claimed: every request of the login, the two token exchanges included,
\* goes through the session of the GET /oidc/auth, and the login creates no
\* second session.
C4_AllThroughOneSession ==
    /\ \A i \in 1..Len(LoginLog) : LoginLog[i].via = LoginLog[1].via
    /\ ApiLog = <<>> => nsessions <= 1

\* C4 as amended: every request from GET /oidc/auth to the final redirect GET
\* goes through the one session created at the start of the login, and no other
\* session exists until then; POST /oidc/token and POST /auth/exchange each go
\* through a session of their own.
C4_SessionThroughFinalRedirect ==
    /\ \A i \in 1..Len(LoginLog) :
        IF <<LoginLog[i].method, LoginLog[i].ep>> \in OutsideSession
        THEN \A j \in 1..(i - 1) : LoginLog[j].via # LoginLog[i].via
        ELSE LoginLog[i].via = LoginLog[1].via
    /\ (\A i \in 1..Len(log) : <<log[i].method, log[i].ep>> \notin OutsideSession)
       => nsessions <= 1

\* C4 witness: a login that went through the consent requests and both exchanges
C4_Witness ==
    /\ \E i \in 1..Len(log) : log[i].ep = "/api/interaction/consent"
    /\ \E i \in 1..Len(log) : log[i].ep = "/auth/exchange" /\ log[i].resp.net

----------------------------------------------------------------------------
(* C5 *)

ConsentWord == <<"c", "o", "n", "s", "e", "n", "t">>

\* The Location header is there and holds the substring "consent"
SaysConsent(r) ==
    /\ r.location # None
    /\ \E i \in 1..(Len(r.location) - Len(ConsentWord) + 1) :
           SubSeq(r.location, i, i + Len(ConsentWord) - 1) = ConsentWord

\* C5: after the answer to GET redirectTo (request i, following the submit), a
\* Location holding "consent" makes the next two requests the consent-page GET
\* and the consent POST, and the final GET then targets the redirectTo of the
\* consent POST; any other Location, or none, makes the next request the final
\* GET, targeting the redirectTo of the submit, and no consent request is made.
C5_ConsentIffLocation ==
    \A i \in 1..Len(log) :
        (log[i].site = "redirect" /\ log[i].resp.net) =>
            IF SaysConsent(log[i].resp)
            THEN /\ Len(log) = i => pc = "consent_get"
                 /\ Len(log) > i =>
                      /\ Shape(log)[i + 1] = ConsentOrder[1]
                      /\ log[i + 1].target = log[i].resp.location
                 /\ (Len(log) = i + 1 /\ log[i + 1].resp.net) => pc = "consent_post"
                 /\ Len(log) > i + 1 => Shape(log)[i + 2] = ConsentOrder[2]
                 /\ Len(log) > i + 2 =>
                      /\ Shape(log)[i + 3] = TailOrder[1]
                      /\ log[i + 3].target = log[i + 2].resp.body.redirectTo
            ELSE /\ Len(log) = i => pc = "final"
                 /\ \A j \in 1..Len(log) : Shape(log)[j] \notin
                        {ConsentOrder[1], ConsentOrder[2]}
                 /\ Len(log) > i =>
                      /\ Shape(log)[i + 1] = TailOrder[1]
                      /\ log[i + 1].target = log[i - 1].resp.body.redirectTo

\* C5 witness: the consent branch was taken on a Location that holds "consent"
\* in its middle, and the final GET was made
C5_Witness ==
    \E i \in 1..Len(log) :
        /\ log[i].site = "redirect"
        /\ log[i].resp.location # None
        /\ Len(log[i].resp.location) > Len(ConsentWord) + 1
        /\ SaysConsent(log[i].resp)
        /\ Len(log) >= i + 3
        /\ log[i + 3].resp.net

----------------------------------------------------------------------------
(* C6 *)

\* C6: once the final redirect GET was answered without a Location, or with one
\* whose query holds no non-empty code parameter, the run has ended with the
\* NoAuthorizationCode diagnostic and exit status 1, and that GET is the last
\* request made.
C6_NoCodeFails ==
    \A i \in 1..Len(log) :
        ( /\ log[i].site = "final"
          /\ log[i].resp.net
          /\ (log[i].resp.location = None \/ ~HasCodeParam(log[i].resp.location)) )
        => /\ pc = "exit"
           /\ outcome = "NoAuthorizationCode"
           /\ exitcode = 1
           /\ Len(log) = i

\* C6 witness: the run ended on a Location whose only code is in its fragment
C6_Witness ==
    /\ outcome = "NoAuthorizationCode"
    /\ log[Len(log)].resp.location # None
    /\ \E j \in 1..Len(log[Len(log)].resp.location) :
           log[Len(log)].resp.location[j] = "#"

----------------------------------------------------------------------------
(* C7 *)

----------------------------------------------------------------------------
(* C8 *)

ApiRequestOf(command) ==
    CASE command = "get" -> <<"GET", "/alerting/config">>
      [] command = "set" -> <<"POST", "/alerting/config">>
      [] command = "delete" -> <<"DELETE", "/alerting/config">>
      [] command = "alerts" -> <<"GET", "/alerting/alerts">>

AlertingEps == {"/alerting/config", "/alerting/alerts"}

LoginFailures ==
    {"InvalidCredentials", "ProviderError", "UnexpectedResponse",
     "NoAuthorizationCode", "TokenExchangeFailed", "BackendExchangeFailed"}

\* C8: a run makes at most one /alerting/* request and at most one login; the
\* /alerting/* request is the one of the subcommand, it comes after exactly one
\* complete login, and its bearer token is the data.token that this login got
\* from /auth/exchange; a run whose login failed makes no /alerting/* request.
C8_FreshLoginThenBearer ==
    /\ \A i, j \in 1..Len(log) :
           (log[i].ep \in AlertingEps /\ log[j].ep \in AlertingEps) => i = j
    /\ \A i, j \in 1..Len(log) :
           (log[i].ep = "/oidc/auth" /\ log[j].ep = "/oidc/auth") => i = j
    /\ \A i \in 1..Len(log) :
           log[i].ep \in AlertingEps =>
               /\ <<log[i].method, log[i].ep>> = ApiRequestOf(args.command)
               /\ \E c \in BOOLEAN : Shape(SubSeq(log, 1, i - 1)) = ExpectedOrder(c)
               /\ Present(log[i].bearer)
               /\ log[i].bearer = log[i - 1].resp.body.token
    /\ (outcome \in LoginFailures \/ (outcome = "UncaughtException" /\ jwt = None))
       => \A i \in 1..Len(log) : log[i].ep \notin AlertingEps

\* C8 witness: the set subcommand made its request with the second token
C8_Witness ==
    /\ args.command = "set"
    /\ Len(log) > 0
    /\ log[Len(log)].ep = "/alerting/config"
    /\ log[Len(log)].bearer = <<"j", "2">>

----------------------------------------------------------------------------
(* C9 *)

\* C9: once the /alerting/* request was answered with a 4xx/5xx status, the run
\* has ended with the BackendError diagnostic and exit status 1, nothing was
\* printed on standard output, and the message reported is the message field
\* of the body when it has one and the raw body otherwise, whatever the body.
C9_BackendErrorReported ==
    \A i \in 1..Len(log) :
        (log[i].ep \in AlertingEps /\ log[i].resp.net /\ log[i].resp.status >= 400)
        => /\ pc = "exit"
           /\ exitcode = 1
           /\ stdout = ""
           /\ outcome = "BackendError"
           /\ stderr[1] = "Error"
           /\ stderr[2] = IF /\ log[i].resp.body.kind = "object"
                             /\ log[i].resp.body.message # None
                          THEN log[i].resp.body.message
                          ELSE log[i].resp.body

\* What does hold after an error status: exit status 1 and no success output;
\* the BackendError diagnostic is produced when the body is a JSON object.
BackendErrorStops ==
    \A i \in 1..Len(log) :
        (log[i].ep \in AlertingEps /\ log[i].resp.net /\ log[i].resp.status >= 400)
        => /\ pc = "exit"
           /\ exitcode = 1
           /\ stdout = ""
           /\ log[i].resp.body.kind = "object" => outcome = "BackendError"
           /\ log[i].resp.body.kind # "object" => outcome = "UncaughtException"

----------------------------------------------------------------------------
(* C10 *)

WellFormed(p) == \E i \in 1..Len(p) : p[i] = "="

FirstEq(p) == CHOOSE i \in 1..Len(p) : p[i] = "=" /\ \A j \in 1..(i - 1) : p[j] # "="

KeyOfPair(p) == SubSeq(p, 1, FirstEq(p) - 1)

ValueOfPair(p) == SubSeq(p, FirstEq(p) + 1, Len(p))

AlertnameMatcher ==
    [name |-> <<"a", "l", "e", "r", "t", "n", "a", "m", "e">>,
     value |-> args.alertname, isRegex |-> FALSE]

AllWellFormed == \A i \in 1..Len(args.labels) : WellFormed(args.labels[i])

\* C10 as claimed: a silence run whose pairs are all well formed POSTs the
\* alertname matcher followed by one matcher per pair given, in order, each
\* with isRegex false; a run with a malformed pair POSTs nothing.
C10_OneMatcherPerPair ==
    pc = "exit" =>
        IF AllWellFormed
        THEN /\ Len(log) = 1
             /\ Len(log[1].payload) = 1 + Len(args.labels)
             /\ log[1].payload[1] = AlertnameMatcher
             /\ \A i \in 1..Len(args.labels) :
                    log[1].payload[i + 1] =
                        [name |-> KeyOfPair(args.labels[i]),
                         value |-> ValueOfPair(args.labels[i]), isRegex |-> FALSE]
        ELSE log = <<>>

\* C10 as amended: the POST carries the alertname matcher followed by exactly
\* one matcher per distinct label key given, in the order in which the keys
\* first appear, its value being that of the last pair with the key, each with
\* isRegex false; a run with a malformed pair POSTs nothing.
C10_OneMatcherPerKey ==
    pc = "exit" =>
        IF AllWellFormed
        THEN /\ Len(log) = 1
             /\ log[1].method = "POST"
             /\ log[1].payload[1] = AlertnameMatcher
             /\ LET ms == Tail(log[1].payload)
                    first(k) == CHOOSE p \in 1..Len(args.labels) :
                                    /\ KeyOfPair(args.labels[p]) = k
                                    /\ \A q \in 1..(p - 1) : KeyOfPair(args.labels[q]) # k
                IN  /\ \A i \in 1..Len(ms) : ms[i].isRegex = FALSE
                    /\ \A i, j \in 1..Len(ms) : ms[i].name = ms[j].name => i = j
                    /\ \A p \in 1..Len(args.labels) :
                           \E i \in 1..Len(ms) : ms[i].name = KeyOfPair(args.labels[p])
                    /\ \A i \in 1..Len(ms) :
                           \E p \in 1..Len(args.labels) :
                               /\ KeyOfPair(args.labels[p]) = ms[i].name
                               /\ ValueOfPair(args.labels[p]) = ms[i].value
                               /\ \A q \in (p + 1)..Len(args.labels) :
                                      KeyOfPair(args.labels[q]) # ms[i].name
                    /\ \A i, j \in 1..Len(ms) :
                           i < j => first(ms[i].name) < first(ms[j].name)
        ELSE log = <<>>

\* C10 witness: a POST was made for a list whose first two pairs give the same
\* key with different values
C10_Witness ==
    /\ pc = "exit"
    /\ Len(log) = 1
    /\ Len(args.labels) >= 2
    /\ AllWellFormed
    /\ KeyOfPair(args.labels[1]) = KeyOfPair(args.labels[2])
    /\ ValueOfPair(args.labels[1]) # ValueOfPair(args.labels[2])

----------------------------------------------------------------------------
(* C11 *)

\* The target of call i is a redirectTo that an earlier response carried
TargetWasGiven(i) ==
    /\ Present(log[i].target)
    /\ \E j \in 1..(i - 1) :
           /\ log[j].resp.net
           /\ log[j].resp.body.kind = "object"
           /\ log[j].resp.body.redirectTo = log[i].target

\* C11: every redirect GET, interim or final, is called with a target that an
\* earlier response carried as its redirectTo; and once the consent POST was
\* answered with a JSON object whose redirectTo is absent or empty, the run has
\* ended with one of the login diagnostics and exit status 1, the consent POST
\* being the last call made.
C11_RedirectTargetsGiven ==
    /\ \A i \in 1..Len(log) : log[i].ep = "redirect_to" => TargetWasGiven(i)
    /\ \A i \in 1..Len(log) :
           ( /\ log[i].site = "consent_post"
             /\ log[i].resp.net
             /\ log[i].resp.body.kind = "object"
             /\ log[i].resp.body.redirectTo \in {None, <<>>} )
           => /\ pc = "exit"
              /\ outcome \in LoginFailures
              /\ exitcode = 1
              /\ Len(log) = i

\* What does hold: the interim GET, and the final GET of a run without consent,
\* are called with a redirectTo that was given; a final GET called with an
\* absent or empty target is the last call of the run, requests sends nothing
\* for it, and the run ends in an uncaught exception with exit status 1.
AbsentTargetRaises ==
    \A i \in 1..Len(log) :
        log[i].ep = "redirect_to" =>
            IF TargetWasGiven(i)
            THEN log[i].resp # NotSent
            ELSE /\ log[i].site = "final"
                 /\ log[i - 1].site = "consent_post"
                 /\ log[i].resp = NotSent
                 /\ Len(log) = i
                 /\ pc = "exit"
                 /\ outcome = "UncaughtException"
                 /\ exitcode = 1

====
